---- MODULE Spec2Model ----
(***************************************************************************)
(* State-machine model of apps/DeepFaceLive/backend/BackendBase.py:        *)
(* BackendConnectionData (the envelope), BackendConnection (envelope       *)
(* serialization over the ring), BackendSignal, and the two xlib.mp        *)
(* collaborators they drive, MPSPSCMRRingData (the ring) and MPWeakHeap    *)
(* (the weak heap).  The ring and the heap are modelled from sections 3,   *)
(* 4.1 and 4.2 of spec.md, which describe xlib.mp.                         *)
(*                                                                         *)
(* Python values are records, so that any value can be compared with None: *)
(*   None            [none |-> TRUE]                                       *)
(*   bytes           [bytes |-> <<b1, ..., bn>>]                           *)
(*   an exception    [exc |-> "AttributeError"]                            *)
(*   a bool result   [bool |-> TRUE]                                       *)
(***************************************************************************)
EXTENDS Integers, Sequences, FiniteSets, TLC

None == [none |-> TRUE]

Bytes(s) == [bytes |-> s]

Raised(e) == [exc |-> e]

(***************************************************************************)
(* Bounds of the model.                                                    *)
(***************************************************************************)
\* ring slots in the single-producer specification (8192 in the program)
TableSize == 2

\* completed writes of the single producer
MaxWrites == 4

\* envelopes the single producer constructs
MaxUid == 2

\* producers of the multi-producer specification, and writes of each
NumProducers == 2

WritesPerProducer == 2

\* bytes of the weak heap (8 MiB in the program)
HeapSize == 3

\* allocations on the weak heap
MaxAllocs == 3

\* writes of the envelope that carries heap handles
EnvMaxWrites == 1

\* send() calls and recv() calls on the signal
MaxSends == 3

MaxRecvs == 4

\* durations the worker's measurer averages over (120 in BackendWorker)
Samples == 2

\* stop_profile_timing calls of the worker
MaxStops == 3

\* face marks one envelope collects
MaxMarks == 2

\* writes of the producer that fills in the envelope's fields
FieldsMaxWrites == 2

Producers == 1..NumProducers

Readers == {"r1", "r2"}

Names == {"a", "b"}

\* lengths of the blobs stored on the heap
BlobLens == {1, 2}

\* processes that share the signal
SignalUsers == {"s1", "s2"}

\* the process-local MPWeakHeap object attached to the shared arena
Heap == [heap |-> TRUE]

\* callbacks given to call_on_profile_timing, and measured durations
Listeners == {"f", "g"}

Durations == {1, 2}

\* FaceMark objects, and values that are not FaceMark objects
FaceMarks == {[facemark |-> 1], [facemark |-> 2]}

NotFaceMarks == {[none |-> TRUE], [str |-> "mark"]}

\* the value each scalar setter is called with
ScalarValues ==
    [is_frame_reemitted |-> [bool |-> TRUE],
     frame_name |-> [str |-> "frame"],
     frame_count |-> [int |-> 2],
     frame_num |-> [int |-> 1],
     frame_fps |-> [float |-> 25],
     frame_timestamp |-> [float |-> 1],
     merged_frame_name |-> [str |-> "merged"]]

ScalarFields == DOMAIN ScalarValues

Max(a, b) == IF a >= b THEN a ELSE b

Range(s) == {s[i] : i \in 1..Len(s)}

VARIABLES
    multi_producer,  \* the ring's multi_producer flag
    table_size,      \* the ring's table_size
    rd_table,        \* the ring's slots: slot index -> [id, data] or None
    rd_write_id,     \* the ring's shared write cursor
    rd_lock,         \* the ring's write lock: None or [by |-> producer]
    rd_read_id,      \* each reader's cursor
    wpc, wid, wbuf,  \* each producer's position in write(), its slot id, its bytes
    wcount,          \* writes each producer has completed
    rpc, rpick,      \* each reader's position in read(), the id it is fetching
    rret,            \* each reader's last return value of read()
    wret,            \* each reader's wait_for_read() result, until its next read()
                     \* returns: None when it made no such call
    got,             \* history: the write_ids each reader's reads returned
    written,         \* history: the completed writes, in commit order, each with
                     \* its id, its bytes, its producer and the contents of the
                     \* envelope passed
    bcd,             \* each producer's envelope (a BackendConnectionData)
    exc,             \* each producer's last envelope call: None, or what it raised
    heap_mem,        \* the weak heap's bytes, by offset
    heap_ep,         \* the weak heap's epochs, by offset
    heap_off,        \* the weak heap's circular write offset
    heap_n,          \* history: allocations made so far
    heap_tag,        \* history: by offset, the allocation that last wrote it
    ev,              \* the signal's multiprocessing.Event flag
    spc, is_set,     \* each signal user's position in recv(), its local is_set
    sends, recvs,    \* send() calls completed, recv() calls started
    trues,           \* recv() calls that returned True
    slog,            \* history: the completed signal calls, in order
    measurer_t0,     \* the worker's measurer: a measurement is running
    measurer_window, \* the worker's measurer: the last Samples durations
    stops,           \* stop_profile_timing calls completed
    msgs,            \* messages sent by the worker, not yet handled by the host
    evl,             \* the host's _profile_timing_evl: the listeners, in order
    evl_calls,       \* history: the listener invocations, in order
    handled          \* history: the messages handled, each with the listeners
                     \* registered when it was handled

ringvars == <<multi_producer, table_size, rd_table, rd_write_id, rd_lock, rd_read_id,
              wpc, wid, wbuf, wcount, rpc, rpick, rret, wret, got, written, bcd>>

heapvars == <<heap_mem, heap_ep, heap_off, heap_n, heap_tag>>

sigvars == <<ev, spc, is_set, sends, recvs, trues, slog>>

\* the connection's side of ringvars: everything but the producers' envelopes
connvars == <<multi_producer, table_size, rd_table, rd_write_id, rd_lock, rd_read_id,
              wpc, wid, wbuf, wcount, rpc, rpick, rret, wret, got, written>>

timingvars == <<measurer_t0, measurer_window, stops, msgs, evl, evl_calls, handled>>

vars == <<ringvars, exc, heapvars, sigvars, timingvars>>

(***************************************************************************)
(* MPWeakHeap, from spec.md 3 and 4.1: a circular arena of HeapSize bytes. *)
(* A handle is [offset, size, epoch]; every offset carries an epoch that   *)
(* is incremented when an allocation reuses it.  The fields serial, orig   *)
(* and image of a handle are history: the allocation's number, its bytes,  *)
(* and the shape and dtype when set_image made it.                         *)
(***************************************************************************)
Offsets == 0..(HeapSize - 1)

\* where an allocation of size bytes starts: at the write offset, or at 0
\* when it does not fit before the arena's end
Heap_start(size) == IF heap_off + size > HeapSize THEN 0 ELSE heap_off

Region(offset, size) == offset..(offset + size - 1)

\* add_data: the handle it returns
Heap_ref(data) ==
    LET start == Heap_start(Len(data))
    IN  [offset |-> start, size |-> Len(data), epoch |-> heap_ep[start] + 1,
         serial |-> heap_n + 1, orig |-> data, image |-> None]

\* add_data: its effect on the arena
Heap_add(data) ==
    LET start == Heap_start(Len(data))
        cells == Region(start, Len(data))
    IN  /\ heap_mem' = [c \in Offsets |-> IF c \in cells THEN data[c - start + 1]
                                                         ELSE heap_mem[c]]
        /\ heap_ep' = [c \in Offsets |-> IF c \in cells THEN heap_ep[c] + 1
                                                        ELSE heap_ep[c]]
        /\ heap_off' = (start + Len(data)) % HeapSize
        /\ heap_n' = heap_n + 1
        /\ heap_tag' = [c \in Offsets |-> IF c \in cells THEN heap_n + 1
                                                         ELSE heap_tag[c]]

\* faulty variant of Heap_fresh: no epoch check
Heap_fresh_unchecked(ref) == TRUE

\* the epoch check of get_data: the slot still carries the handle's epoch
Heap_fresh(ref) == heap_ep[ref.offset] = ref.epoch

\* get_data: the bytes of the handle's region, None for a stale handle
Heap_get_data(ref) ==
    IF Heap_fresh(ref)
    THEN Bytes([i \in 1..ref.size |-> heap_mem[ref.offset + i - 1]])
    ELSE None

(***************************************************************************)
(* numpy: an image is [data, shape, dtype], data being the bytes of its    *)
(* C-contiguous buffer.                                                    *)
(***************************************************************************)
ItemSize(dtype) == IF dtype = "uint16" THEN 2 ELSE 1

RECURSIVE Prod(_)
Prod(shape) == IF shape = <<>> THEN 1 ELSE Head(shape) * Prod(Tail(shape))

\* np.ndarray(shape, dtype=dtype, buffer=buffer): a view of the buffer's first
\* bytes; numpy raises TypeError for a buffer that is too small
ndarray(shape, dtype, buffer) ==
    LET need == Prod(shape) * ItemSize(dtype)
    IN  IF Len(buffer) < need
        THEN Raised("TypeError")
        ELSE [data |-> SubSeq(buffer, 1, need), shape |-> shape, dtype |-> dtype]

(***************************************************************************)
(* BackendConnectionData                                                   *)
(***************************************************************************)
\* __init__: the envelope's __dict__.  A dict is a function on Names with None
\* for a missing key, which is what dict.get(name, None) answers.
BackendConnectionData(uid) ==
    [weak_heap |-> None,
     weak_heap_refs |-> [n \in Names |-> None],
     weak_heap_image_infos |-> [n \in Names |-> None],
     uid |-> uid,
     is_frame_reemitted |-> None,
     frame_name |-> None,
     frame_count |-> None,
     frame_num |-> None,
     frame_fps |-> None,
     frame_timestamp |-> None,
     merged_frame_name |-> None,
     face_mark_list |-> <<>>]

\* the fields of an envelope other than the heap binding
EnvelopeFields == DOMAIN BackendConnectionData(0) \ {"weak_heap"}

\* what an envelope holds in those fields
Contents(d) == [f \in EnvelopeFields |-> d[f]]

\* faulty variant of getstate: _weak_heap stays in the state
getstate_with_heap(d) == d

\* faulty variant of getstate: the image infos are left out of the state
getstate_without_infos(d) ==
    [d EXCEPT !.weak_heap = None, !.weak_heap_image_infos = [n \in Names |-> None]]

\* __getstate__: a copy of __dict__ with _weak_heap set to None
getstate(d) == [d EXCEPT !.weak_heap = None]

\* faulty variant of getstate_self: _weak_heap is set to None in __dict__
getstate_self_in_place(d) == [d EXCEPT !.weak_heap = None]

\* the envelope itself after __getstate__: the change was made to the copy
getstate_self(d) == d

\* pickle.dumps(bcd): the bytes hold the state __getstate__ answers
pickle_dumps(d) == [pickled |-> getstate(d)]

\* pickle.loads(b): a new object whose __dict__ is the pickled state
pickle_loads(b) == b.pickled

\* get_file: with a handle under the name, what the heap's get_data answers;
\* self._weak_heap.get_data raises AttributeError while _weak_heap is None
get_file(d, name) ==
    LET ref == d.weak_heap_refs[name]
    IN  IF ref # None
        THEN IF d.weak_heap = None THEN Raised("AttributeError")
                                   ELSE Heap_get_data(ref)
        ELSE None

\* faulty variant of get_image: the image is rebuilt flat from the buffer
get_image_flat(d, name) ==
    LET image_info == d.weak_heap_image_infos[name]
        buffer == get_file(d, name)
    IN  IF buffer = Raised("AttributeError") THEN buffer
        ELSE IF image_info # None /\ buffer # None
        THEN ndarray(<<Len(buffer.bytes)>>, "uint8", buffer.bytes)
        ELSE None

\* get_image for a name that is not None
get_image(d, name) ==
    LET image_info == d.weak_heap_image_infos[name]
        buffer == get_file(d, name)
    IN  IF buffer = Raised("AttributeError") THEN buffer
        ELSE IF image_info # None /\ buffer # None
        THEN ndarray(image_info.shape, image_info.dtype, buffer.bytes)
        ELSE None

\* the name argument None of get_image
NoName == "None"

\* get_image: None for the name None, before anything is looked up
get_image_of(d, name) == IF name = NoName THEN None ELSE get_image(d, name)

\* assign_weak_heap: self._weak_heap = weak_heap
bind(d, weak_heap) == [d EXCEPT !.weak_heap = weak_heap]

\* assign_weak_heap on the producer's envelope
assign_weak_heap(p) ==
    /\ wpc[p] = "idle"
    /\ bcd[p].weak_heap = None
    /\ bcd' = [bcd EXCEPT ![p] = bind(@, Heap)]
    /\ exc' = [exc EXCEPT ![p] = None]
    /\ UNCHANGED <<wret, multi_producer, table_size, rd_table, rd_write_id, rd_lock, rd_read_id,
                   wpc, wid, wbuf, wcount, rpc, rpick, rret, got, written>>
    /\ UNCHANGED <<heapvars, sigvars, timingvars>>

\* set_file on the producer's envelope: self._weak_heap.add_data raises
\* AttributeError while _weak_heap is None, before anything is assigned
set_file(p, name, data) ==
    /\ wpc[p] = "idle"
    /\ IF bcd[p].weak_heap = None
       THEN /\ exc' = [exc EXCEPT ![p] = Raised("AttributeError")]
            /\ UNCHANGED <<bcd, heapvars>>
       ELSE /\ heap_n < MaxAllocs
            /\ Heap_add(data)
            /\ bcd' = [bcd EXCEPT ![p].weak_heap_refs[name] = Heap_ref(data)]
            /\ exc' = [exc EXCEPT ![p] = None]
    /\ UNCHANGED <<wret, multi_producer, table_size, rd_table, rd_write_id, rd_lock, rd_read_id,
                   wpc, wid, wbuf, wcount, rpc, rpick, rret, got, written>>
    /\ UNCHANGED <<sigvars, timingvars>>

\* faulty variant of set_image_failed: the image info is assigned before
\* set_file is called
set_image_failed_info_first(d, name, image) ==
    [d EXCEPT !.weak_heap_image_infos[name] = [shape |-> image.shape, dtype |-> image.dtype]]

\* the envelope after a set_image whose set_file raised: the assignment of
\* the image info was not reached
set_image_failed(d, name, image) == d

\* set_image on the producer's envelope: set_file(name, image.data), then the
\* image info; an exception of set_file leaves the info unassigned
set_image(p, name, image) ==
    /\ wpc[p] = "idle"
    /\ IF bcd[p].weak_heap = None
       THEN /\ exc' = [exc EXCEPT ![p] = Raised("AttributeError")]
            /\ bcd' = [bcd EXCEPT ![p] = set_image_failed(@, name, image)]
            /\ UNCHANGED heapvars
       ELSE /\ heap_n < MaxAllocs
            /\ Heap_add(image.data)
            /\ bcd' = [bcd EXCEPT ![p].weak_heap_refs[name] =
                                      [Heap_ref(image.data) EXCEPT !.image =
                                          [shape |-> image.shape, dtype |-> image.dtype]],
                                  ![p].weak_heap_image_infos[name] =
                                      [shape |-> image.shape, dtype |-> image.dtype]]
            /\ exc' = [exc EXCEPT ![p] = None]
    /\ UNCHANGED <<wret, multi_producer, table_size, rd_table, rd_write_id, rd_lock, rd_read_id,
                   wpc, wid, wbuf, wcount, rpc, rpick, rret, got, written>>
    /\ UNCHANGED <<sigvars, timingvars>>

\* a scalar setter on the producer's envelope: self._<field> = value
set_scalar(p, field, value) ==
    /\ wpc[p] = "idle"
    /\ bcd' = [bcd EXCEPT ![p][field] = value]
    /\ exc' = [exc EXCEPT ![p] = None]
    /\ UNCHANGED <<connvars, heapvars, sigvars, timingvars>>

set_is_frame_reemitted(p, is_frame_reemitted) ==
    set_scalar(p, "is_frame_reemitted", is_frame_reemitted)

set_frame_name(p, frame_name) == set_scalar(p, "frame_name", frame_name)

set_frame_count(p, frame_count) == set_scalar(p, "frame_count", frame_count)

set_frame_num(p, frame_num) == set_scalar(p, "frame_num", frame_num)

set_frame_fps(p, frame_fps) == set_scalar(p, "frame_fps", frame_fps)

set_frame_timestamp(p, frame_timestamp) ==
    set_scalar(p, "frame_timestamp", frame_timestamp)

set_merged_frame_name(p, merged_frame_name) ==
    set_scalar(p, "merged_frame_name", merged_frame_name)

\* faulty variant of isinstance_FaceMark: no validation
isinstance_anything(v) == TRUE

\* isinstance(face_mark, FaceMark)
isinstance_FaceMark(v) == "facemark" \in DOMAIN v

\* the face-mark list after add_face_mark's append
face_mark_list_append(list, face_mark) == Append(list, face_mark)

\* add_face_mark on the producer's envelope: ValueError for a value that is
\* not a FaceMark, raised before the list is touched; else the append
add_face_mark(p, face_mark) ==
    /\ wpc[p] = "idle"
    /\ IF ~isinstance_FaceMark(face_mark)
       THEN /\ exc' = [exc EXCEPT ![p] = Raised("ValueError")]
            /\ UNCHANGED bcd
       ELSE /\ Len(bcd[p].face_mark_list) < MaxMarks
            /\ bcd' = [bcd EXCEPT ![p].face_mark_list = face_mark_list_append(@, face_mark)]
            /\ exc' = [exc EXCEPT ![p] = None]
    /\ UNCHANGED <<connvars, heapvars, sigvars, timingvars>>

\* the envelope goes through a connection to the next stage, which works on
\* what its read returned
pass_on(p) ==
    /\ wpc[p] = "idle"
    /\ bcd[p].weak_heap # None
    /\ bcd' = [bcd EXCEPT ![p] = pickle_loads(pickle_dumps(@))]
    /\ exc' = [exc EXCEPT ![p] = None]
    /\ UNCHANGED <<connvars, heapvars, sigvars, timingvars>>

\* assign_weak_heap on the envelope a reader received
reader_assign_weak_heap(r) ==
    /\ rpc[r] = "idle"
    /\ rret[r] # None
    /\ rret[r].weak_heap = None
    /\ rret' = [rret EXCEPT ![r] = bind(@, Heap)]
    /\ UNCHANGED <<wret, multi_producer, table_size, rd_table, rd_write_id, rd_lock, rd_read_id,
                   wpc, wid, wbuf, wcount, rpc, rpick, got, written, bcd>>
    /\ UNCHANGED <<exc, heapvars, sigvars, timingvars>>

(***************************************************************************)
(* MPSPSCMRRingData, from spec.md 4.2                                      *)
(***************************************************************************)
Slot(id) == id % table_size

\* the id the next read of reader r is about: its cursor, moved past the
\* records that were overwritten before the cursor reached them
Ring_next_id(r) == Max(rd_read_id[r], rd_write_id - table_size)

\* a record is ready for reader r
Ring_ready(r) == rd_read_id[r] < rd_write_id

\* get_by_id: the slot of that id, absent unless it still holds that id
Ring_get_by_id(id) ==
    IF id >= 0 /\ rd_table[Slot(id)] # None /\ rd_table[Slot(id)].id = id
    THEN rd_table[Slot(id)]
    ELSE None

\* the cursor after a write that was assigned id
Ring_advance(id) == id + 1

\* faulty variant of Ring_consume: the read does not consume
Ring_consume_peek(id) == id

\* a reader's cursor after its read of id
Ring_consume(id) == id + 1

\* faulty variant of Ring_lock_free: a durable queue, whose writer also waits
\* until no reader would lose a record
Ring_lock_free_and_room ==
    /\ multi_producer => rd_lock = None
    /\ \A r \in Readers : rd_write_id - rd_read_id[r] < table_size

\* what a writer waits for: the lock, taken only under multi_producer, and
\* nothing else; no reader cursor is consulted
Ring_lock_free == multi_producer => rd_lock = None

(***************************************************************************)
(* BackendConnection                                                       *)
(***************************************************************************)
\* faulty variant of Conn_multi_producer: the argument is not forwarded
Conn_multi_producer_default(mp) == FALSE

\* __init__ hands its multi_producer argument to the ring
Conn_multi_producer(mp) == mp

\* faulty variant of get_write_id: the id of the last record written
get_write_id_last == rd_write_id - 1

\* get_write_id
get_write_id == rd_write_id

\* faulty variant of get_by_id: ids taken as counted from one
get_by_id_from_one(id) ==
    LET b == Ring_get_by_id(id - 1)
    IN  IF b # None THEN pickle_loads(b.data) ELSE None

\* get_by_id: the ring's answer, unpickled when it is not None
get_by_id(id) ==
    LET b == Ring_get_by_id(id)
    IN  IF b # None THEN pickle_loads(b.data) ELSE None

\* faulty variant of is_full_read: strict comparison
is_full_read_strict(r, buffer_size) == rd_read_id[r] > (rd_write_id - buffer_size)

\* is_full_read of reader r
is_full_read(r, buffer_size) == rd_read_id[r] >= (rd_write_id - buffer_size)

\* the producer constructs its next envelope
new_bcd(p, maxuid) ==
    /\ wpc[p] = "idle"
    /\ bcd[p].uid + NumProducers <= maxuid * NumProducers
    /\ bcd' = [bcd EXCEPT ![p] = BackendConnectionData(bcd[p].uid + NumProducers)]
    /\ UNCHANGED <<wret, multi_producer, table_size, rd_table, rd_write_id, rd_lock, rd_read_id,
                   wpc, wid, wbuf, wcount, rpc, rpick, rret, got, written>>
    /\ UNCHANGED <<exc, heapvars, sigvars, timingvars>>

\* write, first step: pickle the envelope, take the lock under multi_producer,
\* read the write cursor (the slot assignment)
write_begin(p, maxw) ==
    /\ wpc[p] = "idle"
    /\ wcount[p] < maxw
    /\ Ring_lock_free
    /\ wpc' = [wpc EXCEPT ![p] = "assigned"]
    /\ wbuf' = [wbuf EXCEPT ![p] = pickle_dumps(bcd[p])]
    /\ wid' = [wid EXCEPT ![p] = rd_write_id]
    /\ rd_lock' = IF multi_producer THEN [by |-> p] ELSE rd_lock
    /\ bcd' = [bcd EXCEPT ![p] = getstate_self(@)]
    /\ UNCHANGED <<wret, multi_producer, table_size, rd_table, rd_write_id, rd_read_id,
                   wcount, rpc, rpick, rret, got, written>>
    /\ UNCHANGED <<exc, heapvars, sigvars, timingvars>>

\* write, second step: store the record in its slot and advance the cursor,
\* visible at once; release the lock
write_commit(p) ==
    /\ wpc[p] = "assigned"
    /\ rd_table' = [rd_table EXCEPT ![Slot(wid[p])] = [id |-> wid[p], data |-> wbuf[p]]]
    /\ rd_write_id' = Ring_advance(wid[p])
    /\ rd_lock' = IF multi_producer THEN None ELSE rd_lock
    /\ wpc' = [wpc EXCEPT ![p] = "idle"]
    /\ wcount' = [wcount EXCEPT ![p] = @ + 1]
    /\ written' = Append(written, [id |-> wid[p], data |-> wbuf[p], by |-> p,
                                   orig |-> Contents(bcd[p])])
    /\ UNCHANGED <<wret, multi_producer, table_size, rd_read_id, wid, wbuf,
                   rpc, rpick, rret, got, bcd>>
    /\ UNCHANGED <<exc, heapvars, sigvars, timingvars>>

\* faulty variant of read_return: the ring's record is returned as it is
read_return_raw(b) == b

\* what read returns for the ring's answer b: the unpickled envelope, or None
read_return(b) == IF b # None THEN pickle_loads(b.data) ELSE None

\* read(timeout), entry: with a record ready the ring picks the id to fetch;
\* with none, timeout = 0 returns None at once and timeout > 0 blocks
read_begin(r, blocking) ==
    /\ rpc[r] = "idle"
    /\ IF Ring_ready(r)
       THEN /\ rpc' = [rpc EXCEPT ![r] = "fetch"]
            /\ rpick' = [rpick EXCEPT ![r] = Ring_next_id(r)]
            /\ UNCHANGED <<rret, wret>>
       ELSE IF blocking
       THEN /\ rpc' = [rpc EXCEPT ![r] = "waiting"]
            /\ UNCHANGED <<rpick, rret, wret>>
       ELSE /\ rret' = [rret EXCEPT ![r] = None]
            /\ wret' = [wret EXCEPT ![r] = None]
            /\ UNCHANGED <<rpc, rpick>>
    /\ UNCHANGED <<multi_producer, table_size, rd_table, rd_write_id, rd_lock, rd_read_id,
                   wpc, wid, wbuf, wcount, got, written, bcd>>
    /\ UNCHANGED <<exc, heapvars, sigvars, timingvars>>

\* read(timeout), blocked: a write completed before the timeout
read_wake(r) ==
    /\ rpc[r] = "waiting"
    /\ Ring_ready(r)
    /\ rpc' = [rpc EXCEPT ![r] = "fetch"]
    /\ rpick' = [rpick EXCEPT ![r] = Ring_next_id(r)]
    /\ UNCHANGED <<wret, multi_producer, table_size, rd_table, rd_write_id, rd_lock, rd_read_id,
                   wpc, wid, wbuf, wcount, rret, got, written, bcd>>
    /\ UNCHANGED <<exc, heapvars, sigvars, timingvars>>

\* read(timeout), blocked: the timeout expired with no write
read_timeout(r) ==
    /\ rpc[r] = "waiting"
    /\ ~Ring_ready(r)
    /\ rpc' = [rpc EXCEPT ![r] = "idle"]
    /\ rret' = [rret EXCEPT ![r] = None]
    /\ wret' = [wret EXCEPT ![r] = None]
    /\ UNCHANGED <<multi_producer, table_size, rd_table, rd_write_id, rd_lock, rd_read_id,
                   wpc, wid, wbuf, wcount, rpick, got, written, bcd>>
    /\ UNCHANGED <<exc, heapvars, sigvars, timingvars>>

\* read(timeout), the fetch: the ring answers the picked slot's bytes, or None
\* when a write wrapped over the slot meanwhile, and moves the cursor past the
\* id; the connection unpickles what is not None
read_fetch(r) ==
    /\ rpc[r] = "fetch"
    /\ LET b == Ring_get_by_id(rpick[r])
       IN  /\ rret' = [rret EXCEPT ![r] = read_return(b)]
           /\ got' = [got EXCEPT ![r] = IF b # None THEN Append(@, b.id) ELSE @]
    /\ rd_read_id' = [rd_read_id EXCEPT ![r] = Ring_consume(rpick[r])]
    /\ rpc' = [rpc EXCEPT ![r] = "idle"]
    /\ wret' = [wret EXCEPT ![r] = None]
    /\ UNCHANGED <<multi_producer, table_size, rd_table, rd_write_id, rd_lock,
                   wpc, wid, wbuf, wcount, rpick, written, bcd>>
    /\ UNCHANGED <<exc, heapvars, sigvars, timingvars>>

\* faulty variant of wait_for_read_return: ready whatever the ring answers
wait_for_read_return_true(ready) == TRUE

\* wait_for_read returns what the ring's wait_for_read answers
wait_for_read_return(ready) == ready

\* a Python bool
Bool(b) == [bool |-> b]

\* wait_for_read(timeout), entry: the same wait as read's; with a record ready
\* it answers at once, with none timeout = 0 answers at once and timeout > 0
\* blocks
wait_for_read_begin(r, blocking) ==
    /\ rpc[r] = "idle"
    /\ IF Ring_ready(r) \/ ~blocking
       THEN /\ wret' = [wret EXCEPT ![r] = Bool(wait_for_read_return(Ring_ready(r)))]
            /\ UNCHANGED rpc
       ELSE /\ rpc' = [rpc EXCEPT ![r] = "waiting_for_read"]
            /\ UNCHANGED wret
    /\ UNCHANGED <<multi_producer, table_size, rd_table, rd_write_id, rd_lock, rd_read_id,
                   wpc, wid, wbuf, wcount, rpick, rret, got, written, bcd>>
    /\ UNCHANGED <<exc, heapvars, sigvars, timingvars>>

\* wait_for_read(timeout), blocked: a write completed before the timeout
wait_for_read_wake(r) ==
    /\ rpc[r] = "waiting_for_read"
    /\ Ring_ready(r)
    /\ rpc' = [rpc EXCEPT ![r] = "idle"]
    /\ wret' = [wret EXCEPT ![r] = Bool(wait_for_read_return(TRUE))]
    /\ UNCHANGED <<multi_producer, table_size, rd_table, rd_write_id, rd_lock, rd_read_id,
                   wpc, wid, wbuf, wcount, rpick, rret, got, written, bcd>>
    /\ UNCHANGED <<exc, heapvars, sigvars, timingvars>>

\* wait_for_read(timeout), blocked: the timeout expired with no write
wait_for_read_timeout(r) ==
    /\ rpc[r] = "waiting_for_read"
    /\ ~Ring_ready(r)
    /\ rpc' = [rpc EXCEPT ![r] = "idle"]
    /\ wret' = [wret EXCEPT ![r] = Bool(wait_for_read_return(FALSE))]
    /\ UNCHANGED <<multi_producer, table_size, rd_table, rd_write_id, rd_lock, rd_read_id,
                   wpc, wid, wbuf, wcount, rpick, rret, got, written, bcd>>
    /\ UNCHANGED <<exc, heapvars, sigvars, timingvars>>

(***************************************************************************)
(* BackendSignal                                                           *)
(***************************************************************************)
\* faulty variant of send_flag: the flag is toggled
send_flag_toggled(flag) == ~flag

\* the flag after send: Event.set()
send_flag(flag) == TRUE

\* send: Event.set()
send(q) ==
    /\ spc[q] = "idle"
    /\ sends < MaxSends
    /\ ev' = send_flag(ev)
    /\ sends' = sends + 1
    /\ slog' = Append(slog, "send")
    /\ UNCHANGED <<spc, is_set, recvs, trues>>
    /\ UNCHANGED <<ringvars, exc, heapvars, timingvars>>

\* recv, first step: is_set = Event.is_set()
recv_is_set(q) ==
    /\ spc[q] = "idle"
    /\ recvs < MaxRecvs
    /\ is_set' = [is_set EXCEPT ![q] = ev]
    /\ spc' = [spc EXCEPT ![q] = "tested"]
    /\ recvs' = recvs + 1
    /\ UNCHANGED <<ev, sends, trues, slog>>
    /\ UNCHANGED <<ringvars, exc, heapvars, timingvars>>

\* faulty variant of recv_flag: the flag is not cleared
recv_flag_kept(flag, was_set) == flag

\* the flag after recv's second step: cleared when is_set was True
recv_flag(flag, was_set) == IF was_set THEN FALSE ELSE flag

\* recv, second step: Event.clear() if is_set; return is_set
recv_clear(q) ==
    /\ spc[q] = "tested"
    /\ ev' = recv_flag(ev, is_set[q])
    /\ spc' = [spc EXCEPT ![q] = "idle"]
    /\ trues' = IF is_set[q] THEN trues + 1 ELSE trues
    /\ slog' = Append(slog, IF is_set[q] THEN "True" ELSE "False")
    /\ UNCHANGED <<is_set, sends, recvs>>
    /\ UNCHANGED <<ringvars, exc, heapvars, timingvars>>

(***************************************************************************)
(* BackendHost and BackendWorker: the timing side-channel.  The message    *)
(* channel of Host and Worker, EventListener and AverageMeasurer are from  *)
(* spec.md 4.6: messages arrive in the order sent and the host handles one *)
(* at a time, in the thread that also registers listeners.                 *)
(***************************************************************************)
RECURSIVE Sum(_)
Sum(s) == IF s = <<>> THEN 0 ELSE Head(s) + Sum(Tail(s))

\* AverageMeasurer.stop: the window after one more duration, the last Samples
AverageMeasurer_window(window, duration) ==
    LET w == Append(window, duration)
    IN  IF Len(w) > Samples THEN Tail(w) ELSE w

\* the average of a window, as the fraction sum / n
AverageMeasurer_average(window) == [sum |-> Sum(window), n |-> Len(window)]

\* EventListener.add(func_or_list): the listeners after the call
EventListener_add(listeners, func_or_list) == listeners \o func_or_list

\* EventListener.call(arg): the invocations it makes, in order
EventListener_call(listeners, arg) ==
    [i \in 1..Len(listeners) |-> [func |-> listeners[i], arg |-> arg]]

\* faulty variant of Worker_msg_name: a name the host has no handler for
Worker_msg_name_other == "profile_timing"

\* the name stop_profile_timing sends its message under
Worker_msg_name == "_profile_timing"

\* the name BackendHost.__init__ registers _on_profile_timing_msg for
Host_msg_name == "_profile_timing"

\* _on_profile_timing_msg(timing): the invocations it makes
on_profile_timing_msg(timing) == EventListener_call(evl, timing)

\* start_profile_timing
start_profile_timing ==
    /\ ~measurer_t0
    /\ stops < MaxStops
    /\ measurer_t0' = TRUE
    /\ UNCHANGED <<measurer_window, stops, msgs, evl, evl_calls, handled>>
    /\ UNCHANGED <<ringvars, exc, heapvars, sigvars>>

\* stop_profile_timing: send_msg('_profile_timing', measurer.stop())
stop_profile_timing(duration) ==
    /\ measurer_t0
    /\ measurer_t0' = FALSE
    /\ measurer_window' = AverageMeasurer_window(measurer_window, duration)
    /\ msgs' = Append(msgs, [name |-> Worker_msg_name,
                             arg |-> AverageMeasurer_average(measurer_window')])
    /\ stops' = stops + 1
    /\ UNCHANGED <<evl, evl_calls, handled>>
    /\ UNCHANGED <<ringvars, exc, heapvars, sigvars>>

\* the host takes the next message and calls the handler registered for its
\* name: _on_profile_timing_msg for Host_msg_name, none for another name
host_process_msg ==
    /\ msgs # <<>>
    /\ msgs' = Tail(msgs)
    /\ evl_calls' = IF Head(msgs).name = Host_msg_name
                    THEN evl_calls \o on_profile_timing_msg(Head(msgs).arg)
                    ELSE evl_calls
    /\ handled' = Append(handled, [arg |-> Head(msgs).arg, listeners |-> evl])
    /\ UNCHANGED <<measurer_t0, measurer_window, stops, evl>>
    /\ UNCHANGED <<ringvars, exc, heapvars, sigvars>>

\* call_on_profile_timing(func_or_list)
call_on_profile_timing(func_or_list) ==
    /\ evl' = EventListener_add(evl, func_or_list)
    /\ UNCHANGED <<measurer_t0, measurer_window, stops, msgs, evl_calls, handled>>
    /\ UNCHANGED <<ringvars, exc, heapvars, sigvars>>

\* BackendHost.__init__ and BackendWorker.__init__: no listener, no sample
InitTiming ==
    /\ measurer_t0 = FALSE
    /\ measurer_window = <<>>
    /\ stops = 0
    /\ msgs = <<>>
    /\ evl = <<>>
    /\ evl_calls = <<>>
    /\ handled = <<>>

(***************************************************************************)
(* The single-producer connection: BackendConnection() with one writing    *)
(* process and two reading processes.                                      *)
(***************************************************************************)
InitRing(mp, size) ==
    /\ multi_producer = Conn_multi_producer(mp)
    /\ table_size = size
    /\ rd_table = [i \in 0..(size - 1) |-> None]
    /\ rd_write_id = 0
    /\ rd_lock = None
    /\ rd_read_id = [r \in Readers |-> 0]
    /\ wpc = [p \in Producers |-> "idle"]
    /\ wid = [p \in Producers |-> 0]
    /\ wbuf = [p \in Producers |-> None]
    /\ wcount = [p \in Producers |-> 0]
    /\ rpc = [r \in Readers |-> "idle"]
    /\ rpick = [r \in Readers |-> 0]
    /\ rret = [r \in Readers |-> None]
    /\ wret = [r \in Readers |-> None]
    /\ got = [r \in Readers |-> <<>>]
    /\ written = <<>>
    /\ bcd = [p \in Producers |-> BackendConnectionData(p)]
    /\ exc = [p \in Producers |-> None]

\* the weak heap after construction: nothing allocated
InitHeap ==
    /\ heap_mem = [c \in Offsets |-> 0]
    /\ heap_ep = [c \in Offsets |-> 0]
    /\ heap_off = 0
    /\ heap_n = 0
    /\ heap_tag = [c \in Offsets |-> 0]

\* BackendSignal.__init__: a cleared Event
InitSignal ==
    /\ ev = FALSE
    /\ spc = [q \in SignalUsers |-> "idle"]
    /\ is_set = [q \in SignalUsers |-> FALSE]
    /\ sends = 0
    /\ recvs = 0
    /\ trues = 0
    /\ slog = <<>>

Init == InitRing(FALSE, TableSize) /\ InitHeap /\ InitSignal /\ InitTiming

Next ==
    \/ new_bcd(1, MaxUid)
    \/ write_begin(1, MaxWrites)
    \/ write_commit(1)
    \/ \E r \in Readers : \E blocking \in BOOLEAN : read_begin(r, blocking)
    \/ \E r \in Readers : read_wake(r)
    \/ \E r \in Readers : read_timeout(r)
    \/ \E r \in Readers : read_fetch(r)

Spec == Init /\ [][Next]_vars

(***************************************************************************)
(* The multi-producer connection: BackendConnection(multi_producer=True)   *)
(* with NumProducers writing processes, each writing WritesPerProducer     *)
(* records into a table that holds them all: exactly, or with a slot to    *)
(* spare.                                                                  *)
(***************************************************************************)
InitMP ==
    /\ \E spare \in 0..1 : InitRing(TRUE, NumProducers * WritesPerProducer + spare)
    /\ InitHeap
    /\ InitSignal
    /\ InitTiming

\* each producer writes one envelope per unit of work: it constructs the next
\* envelope after it wrote the current one, and writes an envelope once
NextMP ==
    \/ \E p \in Producers : new_bcd(p, wcount[p] + 1)
    \/ \E p \in Producers : bcd[p].uid > wcount[p] * NumProducers
                            /\ write_begin(p, WritesPerProducer)
    \/ \E p \in Producers : write_commit(p)

SpecMP == InitMP /\ [][NextMP]_vars

(***************************************************************************)
(* The envelope and the heap: one producer stores blobs and images in its  *)
(* envelope and writes it; one reader polls the connection and binds its   *)
(* heap to what it received.  The bytes of the k-th allocation are         *)
(* 16k+1, 16k+2, ..., so that no two blobs share a byte.                   *)
(***************************************************************************)
Pattern(k, len) == [i \in 1..len |-> (16 * k + i) % 256]

ImageKinds ==
    {[shape |-> <<2, 1>>, dtype |-> "uint8"],
     [shape |-> <<1>>, dtype |-> "uint16"]}

\* the images the producer may store next
NextImages ==
    {[data |-> Pattern(heap_n + 1, Prod(k.shape) * ItemSize(k.dtype)),
      shape |-> k.shape, dtype |-> k.dtype] : k \in ImageKinds}

InitEnv == InitRing(FALSE, TableSize) /\ InitHeap /\ InitSignal /\ InitTiming

NextEnv ==
    \/ assign_weak_heap(1)
    \/ \E n \in Names : \E len \in BlobLens : set_file(1, n, Pattern(heap_n + 1, len))
    \/ \E n \in Names : \E image \in NextImages : set_image(1, n, image)
    \/ write_begin(1, EnvMaxWrites)
    \/ write_commit(1)
    \/ read_begin("r1", FALSE)
    \/ read_fetch("r1")
    \/ reader_assign_weak_heap("r1")

SpecEnv == InitEnv /\ [][NextEnv]_vars

(***************************************************************************)
(* The signal shared by two processes, each of which may send and recv.    *)
(***************************************************************************)
InitSig == InitRing(FALSE, TableSize) /\ InitHeap /\ InitSignal /\ InitTiming

NextSig ==
    \/ \E q \in SignalUsers : send(q)
    \/ \E q \in SignalUsers : recv_is_set(q)
    \/ \E q \in SignalUsers : recv_clear(q)

SpecSignal == InitSig /\ [][NextSig]_vars

(***************************************************************************)
(* The signal used by one process: its calls follow one another.           *)
(***************************************************************************)
NextSigSeq ==
    \/ send("s1")
    \/ recv_is_set("s1")
    \/ recv_clear("s1")

SpecSignalSeq == InitSig /\ [][NextSigSeq]_vars

(***************************************************************************)
(* The envelope's fields: one producer fills in the scalar fields, collects *)
(* face marks and stores one image, then writes the envelope, more than    *)
(* once; one reader polls the connection.                                  *)
(***************************************************************************)
InitFields == InitRing(FALSE, TableSize) /\ InitHeap /\ InitSignal /\ InitTiming

\* the producer is still filling in its envelope
Filling == wcount[1] = 0

NextFields ==
    \/ Filling /\ set_is_frame_reemitted(1, ScalarValues.is_frame_reemitted)
    \/ Filling /\ set_frame_name(1, ScalarValues.frame_name)
    \/ Filling /\ set_frame_count(1, ScalarValues.frame_count)
    \/ Filling /\ set_frame_num(1, ScalarValues.frame_num)
    \/ Filling /\ set_frame_fps(1, ScalarValues.frame_fps)
    \/ Filling /\ set_frame_timestamp(1, ScalarValues.frame_timestamp)
    \/ Filling /\ set_merged_frame_name(1, ScalarValues.merged_frame_name)
    \/ Filling /\ \E face_mark \in FaceMarks \cup NotFaceMarks : add_face_mark(1, face_mark)
    \/ Filling /\ assign_weak_heap(1)
    \/ Filling /\ bcd[1].weak_heap = Heap /\ heap_n = 0
               /\ \E image \in NextImages : set_image(1, "a", image)
    \/ write_begin(1, FieldsMaxWrites)
    \/ write_commit(1)
    \/ read_begin("r1", FALSE)
    \/ read_fetch("r1")

SpecFields == InitFields /\ [][NextFields]_vars

(***************************************************************************)
(* One host and its worker: the worker brackets units of work, the host    *)
(* handles the messages and registers listeners, each callback once, one   *)
(* at a time or both in a list.                                            *)
(***************************************************************************)
InitHostWorker == InitRing(FALSE, TableSize) /\ InitHeap /\ InitSignal /\ InitTiming

\* the arguments of call_on_profile_timing: callbacks not yet registered
FuncOrLists ==
    LET new == Listeners \ Range(evl)
    IN  {<<f>> : f \in new} \cup {<<f, g>> : <<f, g>> \in {p \in new \X new : p[1] # p[2]}}

NextHostWorker ==
    \/ start_profile_timing
    \/ \E duration \in Durations : stop_profile_timing(duration)
    \/ host_process_msg
    \/ \E func_or_list \in FuncOrLists : call_on_profile_timing(func_or_list)

SpecHostWorker == InitHostWorker /\ [][NextHostWorker]_vars

(***************************************************************************)
(* One producer and a reader that asks wait_for_read before it polls with  *)
(* read(0), or polls without asking.                                       *)
(***************************************************************************)
InitWait == InitRing(FALSE, TableSize) /\ InitHeap /\ InitSignal /\ InitTiming

NextWait ==
    \/ new_bcd(1, MaxUid)
    \/ write_begin(1, MaxWrites)
    \/ write_commit(1)
    \/ \E blocking \in BOOLEAN : wait_for_read_begin("r1", blocking)
    \/ wait_for_read_wake("r1")
    \/ wait_for_read_timeout("r1")
    \/ read_begin("r1", FALSE)
    \/ read_fetch("r1")

SpecWait == InitWait /\ [][NextWait]_vars

(***************************************************************************)
(* One envelope and the heap: set_file and set_image calls before and      *)
(* after the heap is bound, by the stage that made the envelope and by the *)
(* stages that receive it.                                                 *)
(***************************************************************************)
InitMaps == InitRing(FALSE, TableSize) /\ InitHeap /\ InitSignal /\ InitTiming

NextMaps ==
    \/ assign_weak_heap(1)
    \/ \E n \in Names : \E len \in BlobLens : set_file(1, n, Pattern(heap_n + 1, len))
    \/ \E n \in Names : \E image \in NextImages : set_image(1, n, image)
    \/ pass_on(1)

SpecMaps == InitMaps /\ [][NextMaps]_vars

(***************************************************************************)
(* Properties                                                              *)
(***************************************************************************)
Last(s) == s[Len(s)]

\* the envelope written with write_id = id
WrittenEnvelope(id) == pickle_loads(written[id + 1].data)

\* the record of write_id = id has been overwritten
Overwritten(id) == id + table_size < Len(written)

\* what one reader observes and holds
ReaderState(r) == <<rd_read_id[r], rpc[r], rpick[r], rret[r], got[r]>>

C1_ReaderInv(r) ==
    /\ \A i \in 1..(Len(got[r]) - 1) : got[r][i] < got[r][i + 1]
    /\ \A i \in 1..Len(got[r]) : got[r][i] < Len(written)
    /\ \A id \in 0..(rd_read_id[r] - 1) : id \notin Range(got[r]) => Overwritten(id)
    /\ rret[r] # None => /\ got[r] # <<>>
                         /\ rret[r] = WrittenEnvelope(Last(got[r]))

C1_ReaderStep ==
    /\ Cardinality({r \in Readers : ReaderState(r)' # ReaderState(r)}) <= 1
    /\ (\E r \in Readers : ReaderState(r)' # ReaderState(r))
           => UNCHANGED <<rd_table, rd_write_id, written>>

C2_WriteIdCountsWrites ==
    /\ get_write_id = Len(written)
    /\ \A k \in 1..Len(written) :
          /\ written[k].id = k - 1
          /\ ~Overwritten(k - 1) =>
                 rd_table[Slot(k - 1)] = [id |-> k - 1, data |-> written[k].data]

\* several writes with different payloads, after reads took place
C2_Witness ==
    /\ get_write_id >= 3
    /\ written[1].data # written[2].data
    /\ \E r \in Readers : Len(got[r]) >= 2

\* C4: get_by_id(id) answers the envelope written with that id for the last
\* table_size ids, and None for an overwritten id, an id not yet written and a
\* negative id.
C4_GetById ==
    \A id \in (-1)..(MaxWrites + 1) :
        get_by_id(id) = IF 0 <= id /\ id < Len(written) /\ ~Overwritten(id)
                        THEN WrittenEnvelope(id)
                        ELSE None

\* two more writes than the table holds: id 0 is gone, the newest id is there
C4_Witness ==
    /\ Len(written) = table_size + 2
    /\ get_by_id(0) = None
    /\ get_by_id(Len(written) - 1) = WrittenEnvelope(Len(written) - 1)
    /\ WrittenEnvelope(0) # WrittenEnvelope(Len(written) - 1)

\* the reader has received the newest record written, or nothing was written
FullyConsumed(r) ==
    \/ Len(written) = 0
    \/ got[r] # <<>> /\ Last(got[r]) = Len(written) - 1

\* C7: is_full_read(buffer_size) is true exactly when the records written and
\* not yet behind the reader's cursor number at most buffer_size, for
\* buffer_size from 0 to beyond the table size; is_full_read(0) is true exactly
\* when the reader has received the newest record.
C7_IsFullRead ==
    \A r \in Readers :
        /\ \A b \in 0..(table_size + 1) :
               is_full_read(r, b) <=> (Len(written) - rd_read_id[r] <= b)
        /\ is_full_read(r, 0) <=> FullyConsumed(r)

\* a reader that lags by exactly the table size: full at buffer_size =
\* table_size, not full below it; the other reader is caught up
C7_Witness ==
    /\ Len(written) - rd_read_id["r1"] = table_size
    /\ rd_read_id["r1"] > 0
    /\ is_full_read("r1", table_size)
    /\ ~is_full_read("r1", table_size - 1)
    /\ ~is_full_read("r1", 0)
    /\ is_full_read("r2", 0)

\* records in the table
Stored == {i \in 0..(table_size - 1) : rd_table[i] # None}

RECURSIVE SumWrites(_)
SumWrites(S) ==
    IF S = {} THEN 0
    ELSE LET p == CHOOSE q \in S : TRUE IN wcount[p] + SumWrites(S \ {p})

\* C3: under multi_producer, with a table that holds every record, the ring
\* holds one record per completed write, with write_ids 0, 1, 2, ... in commit
\* order, each slot holding the whole payload of the write that was assigned
\* it; two writers are never between slot assignment and commit at once.
C3_MultiProducer ==
    /\ Cardinality({p \in Producers : wpc[p] = "assigned"}) <= 1
    /\ Len(written) = SumWrites(Producers)
    /\ Cardinality(Stored) = Len(written)
    /\ \A k \in 1..Len(written) :
          /\ written[k].id = k - 1
          /\ rd_table[Slot(k - 1)] = [id |-> k - 1, data |-> written[k].data]
          /\ pickle_loads(written[k].data).uid % NumProducers = written[k].by % NumProducers

\* every producer wrote all its records, interleaved with the others'
C3_Witness ==
    /\ \A p \in Producers : wcount[p] = WritesPerProducer /\ wpc[p] = "idle"
    /\ Cardinality(Stored) = NumProducers * WritesPerProducer
    /\ written[1].by # written[2].by
    /\ written[1].by = written[3].by

\* C5: no more recv() calls returned True than send() calls were made.
C5_RecvAtMostOncePerSend == trues <= sends

\* C6: in the calls of one process, a recv() returns True exactly when the call
\* before it was a send(): after one or more sends the next recv() is True, the
\* recv() after it is False, and a first recv() with no send is False.
C6_SendsCollapse ==
    \A i \in 1..Len(slog) :
        slog[i] # "send" => (slog[i] = "True" <=> (i > 1 /\ slog[i - 1] = "send"))

\* two sends, a recv that is True, a recv that is False
C6_Witness ==
    \E i \in 1..(Len(slog) - 3) :
        /\ slog[i] = "send"
        /\ slog[i + 1] = "send"
        /\ slog[i + 2] = "True"
        /\ slog[i + 3] = "False"

\* the envelopes a process may hold: the producer's, the one a reader's read
\* returned, and those get_by_id answers
Ids == 0..rd_write_id

Envelopes ==
    ({bcd[p] : p \in Producers} \cup {rret[r] : r \in Readers}
        \cup {get_by_id(id) : id \in Ids}) \ {None}

\* the envelopes the connection hands out
Delivered == {get_by_id(id) : id \in Ids} \ {None}

IsData(v) == DOMAIN v = {"bytes"} \/ DOMAIN v = {"data", "shape", "dtype"}

\* C8: an envelope that get_by_id answers, or that read returned and no
\* assign_weak_heap was called on, has no heap; for every name the producer had
\* set its get_file and get_image raise AttributeError; get_file and get_image
\* answer data only on an envelope with a heap bound.
C8_UnboundFails ==
    /\ \A d \in Delivered : d.weak_heap = None
    /\ \A d \in Envelopes : \A n \in Names :
          /\ (d.weak_heap = None /\ d.weak_heap_refs[n] # None) =>
                 /\ get_file(d, n) = Raised("AttributeError")
                 /\ get_image(d, n) = Raised("AttributeError")
          /\ (IsData(get_file(d, n)) \/ IsData(get_image(d, n))) => d.weak_heap = Heap

\* a reader holds an unbound envelope with an image whose bytes are still on
\* the heap: the calls fail now and succeed once the heap is bound
C8_Witness ==
    LET d == rret["r1"]
    IN  /\ d # None
        /\ d.weak_heap = None
        /\ d.weak_heap_image_infos["a"] # None
        /\ get_image(d, "a") = Raised("AttributeError")
        /\ get_file(d, "a") = Raised("AttributeError")
        /\ IsData(get_image(bind(d, Heap), "a"))

\* a later allocation wrote over a byte of the handle's region
Overwritten_ref(ref) ==
    \E c \in Region(ref.offset, ref.size) : heap_tag[c] # ref.serial

\* C9: on an envelope bound to the heap, get_file of a name whose region was
\* overwritten by a later allocation is None, and get_file is never anything
\* but None or the bytes that were stored under the handle.
C9_StaleIsAbsent ==
    \A d \in Envelopes : \A n \in Names :
        LET ref == d.weak_heap_refs[n]
        IN  ref # None =>
                /\ Overwritten_ref(ref) => get_file(bind(d, Heap), n) = None
                /\ get_file(bind(d, Heap), n) \in {None, Bytes(ref.orig)}

\* the allocator wrapped over the head of one blob and the tail of none: the
\* stale handle starts inside the overwriting allocation, the other is intact
C9_Witness ==
    LET d == bcd[1]
        a == d.weak_heap_refs["a"]
        b == d.weak_heap_refs["b"]
    IN  /\ d.weak_heap = Heap
        /\ a # None /\ b # None
        /\ Overwritten_ref(a)
        /\ a.offset > 0
        /\ heap_tag[a.offset] = b.serial
        /\ get_file(d, "a") = None
        /\ get_file(d, "b") = Bytes(b.orig)

\* C10: while the handle under a name is the one set_image made and its region
\* has not been overwritten, get_image on the envelope bound to the heap is
\* the image stored: the same bytes, shape and dtype; for the producer's
\* envelope and for every envelope that went through write and read.
C10_ImageRoundTrip ==
    \A d \in Envelopes : \A n \in Names :
        LET ref == d.weak_heap_refs[n]
        IN  (ref # None /\ ref.image # None /\ ~Overwritten_ref(ref)) =>
                get_image(bind(d, Heap), n) =
                    [data |-> ref.orig, shape |-> ref.image.shape, dtype |-> ref.image.dtype]

\* the reader bound its heap to the envelope it received and gets the 2x1
\* image back, after the producer stored something else under another name
C10_Witness ==
    LET d == rret["r1"]
    IN  /\ d # None
        /\ d.weak_heap = Heap
        /\ d.weak_heap_refs["a"] # None
        /\ d.weak_heap_refs["a"].image # None
        /\ d.weak_heap_refs["a"].image.shape = <<2, 1>>
        /\ bcd[1].weak_heap_refs["b"] # None
        /\ bcd[1].weak_heap_refs["b"].serial > d.weak_heap_refs["a"].serial
        /\ get_image(d, "a") = [data |-> d.weak_heap_refs["a"].orig,
                                shape |-> <<2, 1>>, dtype |-> "uint8"]

\* no reader has done anything: the state of a connection nobody reads
NoReaderActed ==
    \A r \in Readers : rd_read_id[r] = 0 /\ rpc[r] = "idle" /\ got[r] = <<>>

\* a write is never refused: a producer that is not writing can begin a write,
\* and a begun write can commit
C11_WriteEnabled ==
    /\ (wpc[1] = "idle" /\ wcount[1] < MaxWrites) => ENABLED write_begin(1, MaxWrites)
    /\ wpc[1] = "assigned" => ENABLED write_commit(1)

\* a step that moves the write cursor moves it by one, moves no reader's
\* cursor, and stores the record in the slot of the oldest record, which it
\* replaces when the table is full; every other slot is kept
C11_WriteStep ==
    rd_write_id' # rd_write_id =>
        /\ rd_write_id' = rd_write_id + 1
        /\ rd_read_id' = rd_read_id
        /\ rd_write_id >= table_size =>
               /\ Stored = 0..(table_size - 1)
               /\ \A i \in Stored : rd_table[i].id >= rd_table[Slot(rd_write_id)].id
        /\ rd_table'[Slot(rd_write_id)].id = rd_write_id
        /\ \A i \in 0..(table_size - 1) : i # Slot(rd_write_id) => rd_table'[i] = rd_table[i]

\* C11: write never blocks and is never rejected, whatever the readers'
\* cursors and whether or not any reader ever read: a write can always begin
\* and always commit, each write advances write_id by one, and on a full table
\* it replaces the oldest record.
C11_WriteNeverBlocks ==
    /\ []C11_WriteEnabled
    /\ [][C11_WriteStep]_vars

\* the table was filled and its oldest record overwritten while no reader read
\* anything, and the producer can write again
C11_Witness ==
    /\ NoReaderActed
    /\ Len(written) = table_size + 1
    /\ Len(written) < MaxWrites
    /\ wpc[1] = "idle"
    /\ ENABLED write_begin(1, MaxWrites)

\* every face-mark list holds FaceMark objects only
C12_ListConforms ==
    \A d \in Envelopes : \A i \in 1..Len(d.face_mark_list) : d.face_mark_list[i] \in FaceMarks

\* a call with a value that is not a FaceMark raises ValueError and leaves the
\* envelope as it was; a call with a FaceMark puts it at the end of the list
\* and changes nothing else; no step takes a mark out of the list or moves one
C12_AddStep ==
    /\ \A v \in NotFaceMarks :
          add_face_mark(1, v) => /\ exc'[1] = Raised("ValueError")
                                 /\ bcd' = bcd
    /\ \A m \in FaceMarks :
          add_face_mark(1, m) =>
              /\ exc'[1] = None
              /\ bcd'[1] = [bcd[1] EXCEPT !.face_mark_list = bcd[1].face_mark_list \o <<m>>]
    /\ Len(bcd'[1].face_mark_list) >= Len(bcd[1].face_mark_list)
    /\ \A i \in 1..Len(bcd[1].face_mark_list) :
          bcd'[1].face_mark_list[i] = bcd[1].face_mark_list[i]

\* C12: add_face_mark with a value that is not a FaceMark raises ValueError and
\* leaves the list as it was; with a FaceMark it appends it at the end; every
\* list holds FaceMark objects only, in the order they were added.
C12_AddFaceMark ==
    /\ []C12_ListConforms
    /\ [][C12_AddStep]_vars

\* the last call was refused while the list holds two different marks
C12_Witness ==
    /\ exc[1] = Raised("ValueError")
    /\ Len(bcd[1].face_mark_list) = 2
    /\ bcd[1].face_mark_list[1] # bcd[1].face_mark_list[2]

\* envelope d is envelope e with no heap bound
SameButUnbound(d, e) ==
    /\ d.weak_heap = None
    /\ \A f \in EnvelopeFields : d[f] = e[f]

\* C13: the envelope get_by_id answers for an id, and the envelope a read
\* returned, has the uid, the file handles, the image infos, the scalar fields
\* and the face marks of the envelope that was passed to the write of that id,
\* and no heap.
C13_DeliveredEqualsWritten ==
    /\ \A id \in Ids :
          get_by_id(id) # None => SameButUnbound(get_by_id(id), written[id + 1].orig)
    /\ \A r \in Readers :
          rret[r] # None => /\ got[r] # <<>>
                            /\ SameButUnbound(rret[r], written[Last(got[r]) + 1].orig)

\* the producer bound its heap, stored an image, set every scalar field, added
\* two different face marks and wrote the envelope; it was read and fetched by
\* id
C13_Witness ==
    /\ Len(written) >= 1
    /\ LET e == written[1].orig
       IN  /\ e.weak_heap_refs["a"] # None
           /\ e.weak_heap_image_infos["a"] # None
           /\ \A f \in ScalarFields : e[f] = ScalarValues[f]
           /\ Len(e.face_mark_list) = 2
           /\ e.face_mark_list[1] # e.face_mark_list[2]
           /\ rret["r1"] # None
           /\ bcd[1].weak_heap = Heap
           /\ get_by_id(0) = rret["r1"]

\* the invocations due for a sequence of handled messages: for each message in
\* turn, every listener registered when it was handled, in registration order
RECURSIVE Fanout(_)
Fanout(hs) ==
    IF hs = <<>> THEN <<>>
    ELSE LET h == hs[Len(hs)]
         IN  Fanout(SubSeq(hs, 1, Len(hs) - 1))
                 \o [i \in 1..Len(h.listeners) |-> [func |-> h.listeners[i], arg |-> h.arg]]

IsPrefix(s, t) == Len(s) <= Len(t) /\ \A i \in 1..Len(s) : s[i] = t[i]

\* one message per stop_profile_timing call, handled or on its way; the
\* invocations made are those due; listeners stay registered, in order
C14_TimingInv ==
    /\ stops = Len(handled) + Len(msgs)
    /\ evl_calls = Fanout(handled)
    /\ \A k \in 1..Len(handled) :
          /\ IsPrefix(handled[k].listeners, evl)
          /\ k > 1 => IsPrefix(handled[k - 1].listeners, handled[k].listeners)
          /\ handled[k].arg.n = IF k < Samples THEN k ELSE Samples

\* a stop_profile_timing call sends one message; a registration invokes
\* nothing and keeps the listeners registered before it in their places
C14_TimingStep ==
    /\ stops' # stops => /\ stops' = stops + 1
                         /\ Len(msgs') = Len(msgs) + 1
    /\ evl' # evl => /\ evl_calls' = evl_calls
                     /\ handled' = handled
                     /\ IsPrefix(evl, evl')
                     /\ Len(evl') > Len(evl)

\* C14: every stop_profile_timing call sends exactly one timing message; for
\* each message the host handles it invokes every listener registered at that
\* time exactly once with the message's average, in registration order; a
\* listener registered later is not invoked for it; listeners are never
\* removed.
C14_TimingFanout ==
    /\ []C14_TimingInv
    /\ [][C14_TimingStep]_vars

\* two messages with different averages were handled, the first with one
\* listener registered and the second with two, and a third is on its way
C14_Witness ==
    /\ Len(handled) = 2
    /\ handled[1].listeners = <<"g">>
    /\ handled[2].listeners = <<"g", "f">>
    /\ handled[1].arg # handled[2].arg
    /\ evl_calls = <<[func |-> "g", arg |-> handled[1].arg],
                     [func |-> "g", arg |-> handled[2].arg],
                     [func |-> "f", arg |-> handled[2].arg]>>
    /\ Len(msgs) = 1

NextUnread(r) ==
    CHOOSE id \in rd_read_id[r]..(Len(written) - 1) :
        /\ ~Overwritten(id)
        /\ \A j \in rd_read_id[r]..(id - 1) : Overwritten(j)

\* the steps of one read(timeout) of reader r
C15_ReadStep(r) ==
    /\ \A blocking \in BOOLEAN :
          read_begin(r, blocking) =>
              IF rd_read_id[r] < Len(written)
              THEN rpc'[r] = "fetch" /\ rpick'[r] = NextUnread(r)
              ELSE /\ rd_read_id'[r] = rd_read_id[r]
                   /\ IF blocking THEN rpc'[r] = "waiting" /\ rret'[r] = rret[r]
                                   ELSE rpc'[r] = "idle" /\ rret'[r] = None
    /\ read_wake(r) => /\ rd_read_id[r] < Len(written)
                        /\ rpick'[r] = NextUnread(r)
    /\ read_timeout(r) => /\ rd_read_id[r] = Len(written)
                           /\ rret'[r] = None
                           /\ rd_read_id'[r] = rd_read_id[r]
    /\ read_fetch(r) =>
          /\ rd_read_id'[r] = rpick[r] + 1
          /\ rret'[r] = IF Overwritten(rpick[r]) THEN None ELSE WrittenEnvelope(rpick[r])

wait_for_read_step(r) ==
    \/ \E blocking \in BOOLEAN : wait_for_read_begin(r, blocking)
    \/ wait_for_read_wake(r)
    \/ wait_for_read_timeout(r)

\* a step in which a read of reader r returns
read_returns(r) == read_fetch(r) \/ (read_begin(r, FALSE) /\ rpc'[r] = "idle")

C16_WaitStep(r) ==
    /\ wait_for_read_step(r) =>
          /\ UNCHANGED <<rd_read_id, rd_write_id, rd_table, rpick, rret, got>>
          /\ wret'[r] = Bool(TRUE) => rd_read_id[r] < Len(written)
          /\ wret'[r] = Bool(FALSE) => rd_read_id[r] = Len(written)
    /\ (wret[r] = Bool(TRUE) /\ read_begin(r, FALSE)) =>
          rpc'[r] = "fetch" /\ ~Overwritten(rpick'[r])
    /\ (wret[r] = Bool(TRUE) /\ read_fetch(r)) =>
          rret'[r] = IF Overwritten(rpick[r]) THEN None ELSE WrittenEnvelope(rpick[r])

C17_AbsentWithoutFailing ==
    \A d \in Envelopes :
        /\ get_image_of(d, NoName) = None
        /\ \A n \in Names :
              /\ d.weak_heap_refs[n] = None => get_file(d, n) = None
              /\ d.weak_heap_image_infos[n] = None => get_image_of(d, n) = None
              /\ ~IsData(get_file(d, n)) => get_image_of(d, n) = None

\* the part of C17 that holds: the same, but for a name with a handle on an
\* envelope with no heap, where get_file and get_image raise AttributeError
C17_AbsentWhenBound ==
    \A d \in Envelopes :
        /\ get_image_of(d, NoName) = None
        /\ \A n \in Names :
              /\ d.weak_heap_refs[n] = None => /\ get_file(d, n) = None
                                                /\ get_image_of(d, n) = None
              /\ d.weak_heap = Heap =>
                    /\ d.weak_heap_image_infos[n] = None => get_image_of(d, n) = None
                    /\ ~IsData(get_file(d, n)) => get_image_of(d, n) = None
              /\ (d.weak_heap = None /\ d.weak_heap_refs[n] # None) =>
                    get_image_of(d, n) = Raised("AttributeError")

\* the names under which a map of an envelope holds something
Keys(map) == {n \in Names : map[n] # None}

\* a step of set_file or set_image on the producer's envelope
set_step ==
    \/ \E n \in Names : \E len \in BlobLens : set_file(1, n, Pattern(heap_n + 1, len))
    \/ \E n \in Names : \E image \in NextImages : set_image(1, n, image)

\* C18: on every envelope the names with an image info are among the names
\* with a handle, and a set_file or set_image call that raised left the
\* handles and the image infos as they were.
C18_InfosWithinRefs ==
    /\ [](\A d \in Envelopes : Keys(d.weak_heap_image_infos) \subseteq Keys(d.weak_heap_refs))
    /\ [][(set_step /\ exc'[1] # None) =>
              /\ exc'[1] = Raised("AttributeError")
              /\ bcd[1].weak_heap = None
              /\ bcd'[1].weak_heap_refs = bcd[1].weak_heap_refs
              /\ bcd'[1].weak_heap_image_infos = bcd[1].weak_heap_image_infos]_vars

\* a call raised on a received envelope with no heap bound, which holds a
\* handle with no image info under one name and an image under the other
C18_Witness ==
    /\ exc[1] = Raised("AttributeError")
    /\ bcd[1].weak_heap = None
    /\ Keys(bcd[1].weak_heap_refs) = {"a", "b"}
    /\ Keys(bcd[1].weak_heap_image_infos) = {"b"}

\* a step of the producer's write
write_step == write_begin(1, FieldsMaxWrites) \/ write_commit(1)

\* after a write the producer's envelope resolves the image it stored, holds
\* what was written, and can be written again
C19_AfterWrite ==
    (wcount[1] >= 1 /\ wpc[1] = "idle") =>
        /\ \A k \in 1..Len(written) : written[k].orig = Contents(bcd[1])
        /\ \A n \in Names :
              LET ref == bcd[1].weak_heap_refs[n]
              IN  ref # None =>
                      /\ bcd[1].weak_heap = Heap
                      /\ get_file(bcd[1], n) = Bytes(ref.orig)
                      /\ get_image(bcd[1], n) = [data |-> ref.orig, shape |-> ref.image.shape,
                                                  dtype |-> ref.image.dtype]
        /\ wcount[1] < FieldsMaxWrites => ENABLED write_begin(1, FieldsMaxWrites)

\* C19: a write leaves the producer's envelope as it was, heap binding, handles,
\* image infos and fields, and leaves the heap as it was; after it the
\* producer's get_file and get_image answer what was stored, and the producer
\* can write the envelope again.
C19_WriteLeavesEnvelope ==
    /\ []C19_AfterWrite
    /\ [][write_step => UNCHANGED <<bcd, heapvars>>]_vars

\* the producer wrote its envelope twice, with a heap bound, an image, scalar
\* fields and a face mark, and still gets the image
C19_Witness ==
    /\ Len(written) = 2
    /\ wpc[1] = "idle"
    /\ written[1].data = written[2].data
    /\ bcd[1].weak_heap = Heap
    /\ bcd[1].weak_heap_image_infos["a"] # None
    /\ bcd[1].frame_num = ScalarValues.frame_num
    /\ Len(bcd[1].face_mark_list) = 1
    /\ IsData(get_image(bcd[1], "a"))
    /\ rd_table[0].data.pickled.weak_heap = None

\* the last call to complete was a send and no recv is in progress: that
\* send completed with no recv in progress, and no recv has started since
SendPending ==
    /\ slog # <<>>
    /\ Last(slog) = "send"
    /\ \A q \in SignalUsers : spc[q] = "idle"

\* C20: after a send() that completed while no recv() was in progress the flag
\* is set until a recv() starts; the next recv() to start reads it set, and a
\* recv() returns what it read: that recv() returns True.
C20_NoEdgeLost ==
    /\ [](SendPending => ev)
    /\ [][\A q \in SignalUsers :
              /\ (SendPending /\ recv_is_set(q)) => is_set'[q]
              /\ (spc[q] = "tested" /\ spc'[q] = "tested") => is_set'[q] = is_set[q]
              /\ recv_clear(q) => Last(slog') = IF is_set[q] THEN "True" ELSE "False"]_vars

\* a recv returned False, then two sends completed with no recv in progress,
\* and the only recv started since returned True
C20_Witness ==
    /\ slog = <<"False", "send", "send", "True">>
    /\ recvs = 2
    /\ \A q \in SignalUsers : spc[q] = "idle"

====
